---- MODULE Spec2Model ----
(***************************************************************************)
(* A model of the crawl engine of adoc (src/src/crawler.rs): the visited   *)
(* registry behind its mutex, crawl_url's seed claim, seed fetch with the  *)
(* time-budgeted retry loop of fetch_page, the bounded fan-out over the    *)
(* seed page's related_links and the merge of the results.                 *)
(*                                                                         *)
(* URLs are strings.  Time is counted in ticks of 250 ms.  Fan-out task i  *)
(* is the future built for links[i]; holder 0 of the mutex is the body of  *)
(* crawl_url itself (the seed claim).                                      *)
(***************************************************************************)
EXTENDS Integers, Sequences, FiniteSets, TLC

VARIABLES
    visited,      \* self.visited_urls: the set behind the mutex
    lockHolders,  \* who holds the MutexGuard of visited_urls (0: crawl_url, i: task i)
    concurrency,  \* config.concurrency
    max_retries,  \* config.max_retries
    pc,           \* where the current crawl_url invocation is
    seed,         \* crawl_url's url argument
    recursive,    \* crawl_url's recursive argument
    pages,        \* crawl_url's local `pages`
    links,        \* crawl_url's local `links`
    tpc,          \* per fan-out task: where the future is
    tclaim,       \* per fan-out task: how its contains-check ended
    tres,         \* per fan-out task: how its fetch ended
    results,      \* what buffer_unordered has collected, in completion order
    ret,          \* what the last crawl_url invocation returned
    fpc,          \* where fetch_page is
    elapsed,      \* ticks since backoff.reset()
    interval,     \* backoff.current_interval
    attempts,     \* requests sent by this fetch_page call
    lastAttempt,  \* how the latest request ended
    fres,         \* what fetch_page returned to this crawl_url invocation
    fetchCount,   \* history: fetches begun per URL since Crawler::new
    failed,       \* history: the URLs whose fetch has failed since Crawler::new
    visited0,     \* history: the registry when the current invocation started
    calls,        \* history: crawl_url invocations so far
    text,         \* clean_text's argument, a sequence of characters
    cleaned,      \* what clean_text returned for it
    cpc           \* whether clean_text has been applied, once or twice

vars == <<visited, lockHolders, concurrency, max_retries, pc, seed, recursive,
          pages, links, tpc, tclaim, tres, results, ret, fpc, elapsed, interval,
          attempts, lastAttempt, fres, fetchCount, failed, visited0, calls, text,
          cleaned, cpc>>

config == <<concurrency, max_retries>>
textVars == <<text, cleaned, cpc>>

----------------------------------------------------------------------------
(* Bounds of the model *)

MaxCalls == 2          \* crawl_url invocations on one Crawler
MaxConcurrency == 3    \* config.concurrency ranges over 1..MaxConcurrency
Timeout == 3           \* config.timeout, in ticks
MaxRetries == 1        \* config.max_retries ranges over 0..MaxRetries
MaxLen == 4            \* length of the texts given to clean_text

(* ExponentialBackoff::default(), in ticks of 250 ms *)
InitialInterval == 2   \* initial_interval = 500 ms
MaxInterval == 240     \* max_interval = 60 s

----------------------------------------------------------------------------
(* The site: URLs and the anchors of each page *)

Scheme == "https://"
CrawlDomain == "developer.apple.com"

UA == "https://developer.apple.com/a"
UB == "https://developer.apple.com/b"
UC == "https://developer.apple.com/c"
UPath == "https://evil.example/?q=developer.apple.com"
UHost == "https://developer.apple.com.evil.example/x"
UOff == "https://example.org/x"

Urls == {UA, UB, UC, UPath, UHost, UOff}
SeedUrls == {UA, UB}

\* The href attributes of the a[href] elements of the page at url, in document order.
Anchors(url) ==
    CASE url = UA -> <<"/b", UB, "/a", "/b", UPath, UOff, "https://">>
      [] url = UB -> <<"/c", UHost, "/a">>
      [] OTHER -> <<>>

----------------------------------------------------------------------------
(* Strings and URLs *)

Contains(str, pat) ==
    \E i \in 1..(Len(str) - Len(pat) + 1) : SubSeq(str, i, i + Len(pat) - 1) = pat

StartsWith(str, pat) ==
    Len(str) >= Len(pat) /\ SubSeq(str, 1, Len(pat)) = pat

AfterScheme(u) == SubSeq(u, Len(Scheme) + 1, Len(u))

\* Length of the authority part: up to the first "/", "?" or "#".
HostLen(s) ==
    LET ends == {i \in 1..Len(s) : SubSeq(s, i, i) \in {"/", "?", "#"}}
    IN  IF ends = {} THEN Len(s)
        ELSE (CHOOSE i \in ends : \A j \in ends : i <= j) - 1

Host(u) == SubSeq(AfterScheme(u), 1, HostLen(AfterScheme(u)))

Origin(u) == Scheme \o Host(u)

\* base_url.join(href): absolute hrefs and path-absolute hrefs; an absolute
\* href without a host does not parse.
Join(base, href) ==
    CASE StartsWith(href, Scheme) ->
            IF Host(href) = "" THEN [ok |-> FALSE, url |-> ""]
            ELSE [ok |-> TRUE, url |-> href]
      [] StartsWith(href, "/") -> [ok |-> TRUE, url |-> Origin(base) \o href]

JoinOk(j) == j.ok

\* .filter(|url| url.contains("developer.apple.com"))
DomainFilter(url) == Contains(url, CrawlDomain)

RelatedLinks(url) ==
    LET hrefs  == Anchors(url)
        joined == SelectSeq([i \in 1..Len(hrefs) |-> Join(url, hrefs[i])], JoinOk)
        abs    == [i \in 1..Len(joined) |-> joined[i].url]
    IN  SelectSeq(abs, DomainFilter)

\* The DocPage built from the document at url.
Extract(url) == [url |-> url, related_links |-> RelatedLinks(url)]

----------------------------------------------------------------------------
(* clean_text, on sequences of characters *)

\* The characters of a string.
Chars(str) == [i \in 1..Len(str) |-> SubSeq(str, i, i)]

\* char::is_whitespace, for the characters of the model.
WhiteSpace == {" ", "\t", "\n", "\r"}

\* A line without the "\r" of its "\r\n" ending.
StripCR(line) ==
    IF line # <<>> /\ line[Len(line)] = "\r" THEN SubSeq(line, 1, Len(line) - 1) ELSE line

RECURSIVE LinesFrom(_, _)
\* str::lines(): the lines end at "\n" or "\r\n"; the last ending is optional.
LinesFrom(rest, cur) ==
    IF rest = <<>> THEN (IF cur = <<>> THEN <<>> ELSE <<cur>>)
    ELSE IF Head(rest) = "\n" THEN <<StripCR(cur)>> \o LinesFrom(Tail(rest), <<>>)
    ELSE LinesFrom(Tail(rest), Append(cur, Head(rest)))

Lines(t) == LinesFrom(t, <<>>)

RECURSIVE WordsFrom(_, _)
\* str::split_whitespace(): the maximal runs of non-whitespace characters.
WordsFrom(rest, cur) ==
    IF rest = <<>> THEN (IF cur = <<>> THEN <<>> ELSE <<cur>>)
    ELSE IF Head(rest) \in WhiteSpace
         THEN (IF cur = <<>> THEN <<>> ELSE <<cur>>) \o WordsFrom(Tail(rest), <<>>)
         ELSE WordsFrom(Tail(rest), Append(cur, Head(rest)))

SplitWhitespace(line) == WordsFrom(line, <<>>)

RECURSIVE JoinWith(_, _)
\* [..].join(sep)
JoinWith(parts, sep) ==
    IF parts = <<>> THEN <<>>
    ELSE IF Len(parts) = 1 THEN parts[1]
    ELSE parts[1] \o sep \o JoinWith(Tail(parts), sep)

RECURSIVE TrimStart(_)
TrimStart(t) == IF t # <<>> /\ Head(t) \in WhiteSpace THEN TrimStart(Tail(t)) ELSE t

RECURSIVE TrimEnd(_)
TrimEnd(t) ==
    IF t # <<>> /\ t[Len(t)] \in WhiteSpace THEN TrimEnd(SubSeq(t, 1, Len(t) - 1)) ELSE t

\* str::trim()
Trim(t) == TrimEnd(TrimStart(t))

\* .map(|line| line.split_whitespace().collect::<Vec<_>>().join(" "))
CollapseLine(line) == JoinWith(SplitWhitespace(line), <<" ">>)

\* A filter that keeps every line.
AnyLine(line) == TRUE

\* .filter(|line| !line.is_empty())
NonEmptyLine(line) == line # <<>>

clean_text(t) ==
    LET ls        == Lines(t)
        collapsed == [i \in 1..Len(ls) |-> CollapseLine(ls[i])]
    IN  Trim(JoinWith(SelectSeq(collapsed, NonEmptyLine), <<"\n">>))

\* The texts clean_text is given: every text of up to MaxLen characters,
\* and the text of the spec's example.
Alphabet == {" ", "\t", "\n", "\r", "a", "b"}
ExampleText == Chars("  Hello   world  \n\n  Foo  ")
Texts == UNION {[1..n -> Alphabet] : n \in 0..MaxLen} \cup {ExampleText}

----------------------------------------------------------------------------
(* The visited registry and its mutex *)

\* A lock that excludes nobody.
LockAlwaysFree == TRUE

\* visited_urls.lock().await completes only while no guard is alive.
LockFree == lockHolders = {}

\* A contains-check that never finds the URL.
NeverVisited(v, url) == FALSE

\* visited.contains(url)
IsVisited(v, url) == url \in v

\* An insert that is lost.
InsertLost(v, url) == v

\* visited.insert(url)
Inserted(v, url) == v \cup {url}

----------------------------------------------------------------------------
(* The retry loop of fetch_page *)

SendOutcomes == {"ok200", "status404", "refused", "timeout"}

\* client.get(url).send() is Ok(resp) for every response received, whatever
\* its status; it is Err for a transport failure.
SendIsOk(outcome) == outcome \in {"ok200", "status404"}

\* How long one request can take: a timed-out request takes config.timeout.
Durations(outcome) == IF outcome = "timeout" THEN {Timeout} ELSE 0..Timeout

\* randomization_factor 0.5: the delay lies in [interval/2, 3*interval/2].
RandomizedIntervals(c) == {x \in 1..(2 * MaxInterval) : 2 * x >= c /\ 2 * x <= 3 * c}

\* multiplier 1.5, capped at max_interval.
NextInterval(c) == IF (3 * c) \div 2 > MaxInterval THEN MaxInterval ELSE (3 * c) \div 2

\* A backoff without max_elapsed_time.
NextBackoffUnbounded(el, c) == RandomizedIntervals(c)

\* next_backoff(): the delays the backoff may hand out; none means give up.
NextBackoff(el, c) ==
    IF el > Timeout THEN {}
    ELSE {iv \in RandomizedIntervals(c) : el + iv <= Timeout}

\* Whether next_backoff() may return None.
MayGiveUp(el, c) ==
    el > Timeout \/ \E iv \in RandomizedIntervals(c) : el + iv > Timeout

----------------------------------------------------------------------------
(* The fan-out *)

Tasks == DOMAIN tpc

InFlight == {i \in Tasks : tpc[i] \in {"lockwait", "locked", "insert", "fetching"}}

\* A fan-out that starts every future at once.
SlotAlwaysFree == TRUE

\* A fan-out that keeps one slot unused.
SlotOffByOne == Cardinality(InFlight) < concurrency - 1

\* buffer_unordered(config.concurrency) pulls the next future only while
\* fewer than concurrency are in progress.
SlotFree == Cardinality(InFlight) < concurrency

\* An Ok arm that loses the page.
TaskOkDropped(page) == [ok |-> TRUE, pages |-> <<>>]

\* The Ok arm of a task: Ok(vec![page])
TaskOkArm(page) == [ok |-> TRUE, pages |-> <<page>>]

\* The Err arm of a task, and a skipped task: Ok(vec![])
TaskEmpty == [ok |-> TRUE, pages |-> <<>>]

RECURSIVE Flatten(_)
\* for result in results { if let Ok(mut sub_pages) = result { pages.append(..) } }
Flatten(rs) ==
    IF rs = <<>> THEN <<>>
    ELSE (IF Head(rs).ok THEN Head(rs).pages ELSE <<>>) \o Flatten(Tail(rs))

\* A merge that puts the descendants' pages before the seed's.
MergedSeedLast(ps, rs) == Flatten(rs) \o ps

MergedPages(ps, rs) == ps \o Flatten(rs)

NoRet == [kind |-> "None", pages |-> <<>>]
RetOk(ps) == [kind |-> "Ok", pages |-> ps]
RetErr == [kind |-> "Err", pages |-> <<>>]

\* A seed failure that is swallowed: Ok(pages) with the pages so far.
SeedErrSwallowed == RetOk(pages)

\* What crawl_url returns when fetch_page failed on the seed: Err(e)
SeedErrArm == RetErr

----------------------------------------------------------------------------
(* Initial state: Crawler::new *)

Init ==
    /\ visited = {}
    /\ lockHolders = {}
    /\ concurrency \in 1..MaxConcurrency
    /\ max_retries \in 0..MaxRetries
    /\ pc = "Idle"
    /\ seed = ""
    /\ recursive = FALSE
    /\ pages = <<>>
    /\ links = <<>>
    /\ tpc = <<>>
    /\ tclaim = <<>>
    /\ tres = <<>>
    /\ results = <<>>
    /\ ret = NoRet
    /\ fpc = "idle"
    /\ elapsed = 0
    /\ interval = 0
    /\ attempts = 0
    /\ lastAttempt = "none"
    /\ fres = "none"
    /\ fetchCount = [u \in Urls |-> 0]
    /\ failed = {}
    /\ text = <<>>
    /\ cleaned = <<>>
    /\ cpc = "idle"
    /\ visited0 = {}
    /\ calls = 0

fetchVars == <<fpc, elapsed, interval, attempts, lastAttempt, fres>>
taskVars == <<tpc, tclaim, tres, results>>
callVars == <<seed, recursive, visited0, calls>>

----------------------------------------------------------------------------
(* crawl_url: the seed *)

\* A crawl_url that starts from an empty registry.
CallFresh(u, r) ==
    /\ pc \in {"Idle", "Done", "Error"}
    /\ calls < MaxCalls
    /\ pc' = "ClaimingSeed"
    /\ seed' = u
    /\ recursive' = r
    /\ pages' = <<>>
    /\ links' = <<>>
    /\ tpc' = <<>>
    /\ tclaim' = <<>>
    /\ tres' = <<>>
    /\ results' = <<>>
    /\ ret' = NoRet
    /\ visited' = {}
    /\ visited0' = {}
    /\ calls' = calls + 1
    /\ fres' = "none"
    /\ UNCHANGED <<lockHolders, config, textVars, fpc, elapsed, interval,
                   attempts, lastAttempt, fetchCount, failed>>

\* A caller invokes crawl_url(u, r); &mut self keeps invocations sequential.
Call(u, r) ==
    /\ pc \in {"Idle", "Done", "Error"}
    /\ calls < MaxCalls
    /\ pc' = "ClaimingSeed"
    /\ seed' = u
    /\ recursive' = r
    /\ pages' = <<>>
    /\ links' = <<>>
    /\ tpc' = <<>>
    /\ tclaim' = <<>>
    /\ tres' = <<>>
    /\ results' = <<>>
    /\ ret' = NoRet
    /\ visited0' = visited
    /\ calls' = calls + 1
    /\ fres' = "none"
    /\ UNCHANGED <<visited, lockHolders, config, textVars, fpc, elapsed, interval,
                   attempts, lastAttempt, fetchCount, failed>>

\* let mut visited = self.visited_urls.lock().await;
SeedLock ==
    /\ pc = "ClaimingSeed"
    /\ LockFree
    /\ lockHolders' = lockHolders \cup {0}
    /\ pc' = "SeedLocked"
    /\ UNCHANGED <<visited, config, textVars, pages, links, taskVars, ret, callVars,
                   fetchVars, fetchCount, failed>>

\* if visited.contains(url) { return Ok(pages); }
SeedCheck ==
    /\ pc = "SeedLocked"
    /\ IF IsVisited(visited, seed)
       THEN /\ pc' = "Done"
            /\ ret' = RetOk(pages)
            /\ lockHolders' = lockHolders \ {0}
       ELSE /\ pc' = "SeedInsert"
            /\ UNCHANGED <<ret, lockHolders>>
    /\ UNCHANGED <<visited, config, textVars, pages, links, taskVars, callVars,
                   fetchVars, fetchCount, failed>>

\* visited.insert(url.to_string()); the guard drops at the end of the block,
\* and fetch_page starts: backoff.reset().
SeedInsert ==
    /\ pc = "SeedInsert"
    /\ visited' = Inserted(visited, seed)
    /\ lockHolders' = lockHolders \ {0}
    /\ pc' = "FetchingSeed"
    /\ fpc' = "send"
    /\ elapsed' = 0
    /\ interval' = InitialInterval
    /\ attempts' = 0
    /\ lastAttempt' = "none"
    /\ fres' = "pending"
    /\ fetchCount' = [fetchCount EXCEPT ![seed] = @ + 1]
    /\ UNCHANGED <<config, textVars, pages, links, taskVars, ret, callVars, failed>>

----------------------------------------------------------------------------
(* fetch_page on the seed *)

\* One request: self.client.get(url).send().await
Send(outcome, d) ==
    /\ pc = "FetchingSeed"
    /\ fpc = "send"
    /\ attempts' = attempts + 1
    /\ elapsed' = elapsed + d
    /\ lastAttempt' = outcome
    /\ fpc' = IF SendIsOk(outcome) THEN "text" ELSE "backoff"
    /\ UNCHANGED <<visited, lockHolders, config, textVars, pc, pages, links, taskVars,
                   ret, callVars, interval, fres, fetchCount, failed>>

\* A retry that is also limited by config.max_retries.
BackoffRetryCounted(iv) ==
    /\ pc = "FetchingSeed"
    /\ fpc = "backoff"
    /\ attempts <= max_retries
    /\ iv \in NextBackoff(elapsed, interval)
    /\ elapsed' = elapsed + iv
    /\ interval' = NextInterval(interval)
    /\ fpc' = "send"
    /\ UNCHANGED <<visited, lockHolders, config, textVars, pc, pages, links, taskVars,
                   ret, callVars, attempts, lastAttempt, fres, fetchCount, failed>>

\* The request failed and the backoff hands out a delay: sleep, then retry.
BackoffRetry(iv) ==
    /\ pc = "FetchingSeed"
    /\ fpc = "backoff"
    /\ iv \in NextBackoff(elapsed, interval)
    /\ elapsed' = elapsed + iv
    /\ interval' = NextInterval(interval)
    /\ fpc' = "send"
    /\ UNCHANGED <<visited, lockHolders, config, textVars, pc, pages, links, taskVars,
                   ret, callVars, attempts, lastAttempt, fres, fetchCount, failed>>

\* The request failed and the backoff is exhausted: retry(..).await? returns Err.
BackoffGiveUp ==
    /\ pc = "FetchingSeed"
    /\ fpc = "backoff"
    /\ MayGiveUp(elapsed, interval)
    /\ fres' = "err"
    /\ fpc' = "returned"
    /\ UNCHANGED <<visited, lockHolders, config, textVars, pc, pages, links, taskVars,
                   ret, callVars, elapsed, interval, attempts, lastAttempt,
                   fetchCount, failed>>

\* response.text().await? and the extraction, which does not fail.
ReadBody(ok) ==
    /\ pc = "FetchingSeed"
    /\ fpc = "text"
    /\ fres' = IF ok THEN "ok" ELSE "err"
    /\ fpc' = "returned"
    /\ UNCHANGED <<visited, lockHolders, config, textVars, pc, pages, links, taskVars,
                   ret, callVars, elapsed, interval, attempts, lastAttempt,
                   fetchCount, failed>>

resetFetch ==
    /\ fpc' = "idle"
    /\ elapsed' = 0
    /\ interval' = 0
    /\ attempts' = 0
    /\ lastAttempt' = "none"
    /\ fres' = fres

\* match self.fetch_page(url).await { Ok(page) => pages.push(page), .. } and,
\* when recursive, the set-up of the fan-out; otherwise Ok(pages).
SeedFetchOk ==
    /\ pc = "FetchingSeed"
    /\ fpc = "returned"
    /\ fres = "ok"
    /\ pages' = Append(pages, Extract(seed))
    /\ IF recursive
       THEN /\ links' = pages'[1].related_links
            /\ tpc' = [i \in 1..Len(links') |-> "queued"]
            /\ tclaim' = [i \in 1..Len(links') |-> "none"]
            /\ tres' = [i \in 1..Len(links') |-> "none"]
            /\ pc' = "Fanout"
            /\ ret' = ret
       ELSE /\ pc' = "Done"
            /\ ret' = RetOk(pages')
            /\ UNCHANGED <<links, tpc, tclaim, tres>>
    /\ resetFetch
    /\ UNCHANGED <<visited, lockHolders, config, textVars, results, callVars,
                   fetchCount, failed>>

\* A seed failure that gives the claim back.
SeedFetchErrReleasing ==
    /\ pc = "FetchingSeed"
    /\ fpc = "returned"
    /\ fres = "err"
    /\ ret' = SeedErrArm
    /\ pc' = IF ret'.kind = "Err" THEN "Error" ELSE "Done"
    /\ failed' = failed \cup {seed}
    /\ visited' = visited \ {seed}
    /\ resetFetch
    /\ UNCHANGED <<lockHolders, config, textVars, pages, links, taskVars,
                   callVars, fetchCount>>

\* Err(e) => return Err(e)
SeedFetchErr ==
    /\ pc = "FetchingSeed"
    /\ fpc = "returned"
    /\ fres = "err"
    /\ ret' = SeedErrArm
    /\ pc' = IF ret'.kind = "Err" THEN "Error" ELSE "Done"
    /\ failed' = failed \cup {seed}
    /\ resetFetch
    /\ UNCHANGED <<visited, lockHolders, config, textVars, pages, links, taskVars,
                   callVars, fetchCount>>

----------------------------------------------------------------------------
(* crawl_url: the fan-out tasks *)

\* buffer_unordered takes the next future of the stream, in link order, and
\* polls it up to visited_urls.lock().await.
TaskStart(i) ==
    /\ pc = "Fanout"
    /\ i \in Tasks
    /\ tpc[i] = "queued"
    /\ \A j \in Tasks : j < i => tpc[j] # "queued"
    /\ SlotFree
    /\ tpc' = [tpc EXCEPT ![i] = "lockwait"]
    /\ UNCHANGED <<visited, lockHolders, config, textVars, pc, pages, links, tclaim,
                   tres, results, ret, callVars, fetchVars, fetchCount, failed>>

\* let mut visited = visited_urls.lock().await;
TaskLock(i) ==
    /\ pc = "Fanout"
    /\ i \in Tasks
    /\ tpc[i] = "lockwait"
    /\ LockFree
    /\ lockHolders' = lockHolders \cup {i}
    /\ tpc' = [tpc EXCEPT ![i] = "locked"]
    /\ UNCHANGED <<visited, config, textVars, pc, pages, links, tclaim, tres, results,
                   ret, callVars, fetchVars, fetchCount, failed>>

\* if visited.contains(&link) { return Ok(vec![]); }
TaskCheck(i) ==
    /\ pc = "Fanout"
    /\ i \in Tasks
    /\ tpc[i] = "locked"
    /\ IF IsVisited(visited, links[i])
       THEN /\ tpc' = [tpc EXCEPT ![i] = "finished"]
            /\ tclaim' = [tclaim EXCEPT ![i] = "lost"]
            /\ results' = Append(results, TaskEmpty)
            /\ lockHolders' = lockHolders \ {i}
       ELSE /\ tpc' = [tpc EXCEPT ![i] = "insert"]
            /\ UNCHANGED <<tclaim, results, lockHolders>>
    /\ UNCHANGED <<visited, config, textVars, pc, pages, links, tres, ret, callVars,
                   fetchVars, fetchCount, failed>>

\* A task that keeps the guard alive while it fetches: drop(visited) missing.
TaskInsertHolding(i) ==
    /\ pc = "Fanout"
    /\ i \in Tasks
    /\ tpc[i] = "insert"
    /\ visited' = Inserted(visited, links[i])
    /\ tclaim' = [tclaim EXCEPT ![i] = "won"]
    /\ tpc' = [tpc EXCEPT ![i] = "fetching"]
    /\ fetchCount' = [fetchCount EXCEPT ![links[i]] = @ + 1]
    /\ UNCHANGED <<lockHolders, config, textVars, pc, pages, links, tres, results,
                   ret, callVars, fetchVars, failed>>

\* visited.insert(link.clone()); drop(visited); and the fetch begins.
TaskInsert(i) ==
    /\ pc = "Fanout"
    /\ i \in Tasks
    /\ tpc[i] = "insert"
    /\ visited' = Inserted(visited, links[i])
    /\ lockHolders' = lockHolders \ {i}
    /\ tclaim' = [tclaim EXCEPT ![i] = "won"]
    /\ tpc' = [tpc EXCEPT ![i] = "fetching"]
    /\ fetchCount' = [fetchCount EXCEPT ![links[i]] = @ + 1]
    /\ UNCHANGED <<config, textVars, pc, pages, links, tres, results, ret, callVars,
                   fetchVars, failed>>

\* What fetch_page_with_client(&link, &client) gives: the page of the link,
\* or an error.
FetchWithClient(link) == {[ok |-> TRUE, page |-> Extract(link)], [ok |-> FALSE]}

\* A task that goes on to claim and fetch the links of the page it fetched.
TaskFetchedRecursing(i, r) ==
    /\ pc = "Fanout"
    /\ i \in Tasks
    /\ tpc[i] = "fetching"
    /\ r \in FetchWithClient(links[i])
    /\ tpc' = [tpc EXCEPT ![i] = "finished"]
    /\ tres' = [tres EXCEPT ![i] = IF r.ok THEN "ok" ELSE "failed"]
    /\ results' = Append(results, IF r.ok THEN TaskOkArm(r.page) ELSE TaskEmpty)
    /\ failed' = IF r.ok THEN failed ELSE failed \cup {links[i]}
    /\ LET more == IF r.ok
                   THEN {r.page.related_links[k] : k \in DOMAIN r.page.related_links} \ visited
                   ELSE {}
       IN  /\ visited' = visited \cup more
           /\ fetchCount' = [u \in Urls |-> IF u \in more THEN fetchCount[u] + 1
                                             ELSE fetchCount[u]]
    /\ UNCHANGED <<lockHolders, config, textVars, pc, pages, links, tclaim,
                   ret, callVars, fetchVars>>

\* A task whose fetch error aborts the invocation, as the seed's does.
TaskFetchedFatal(i, r) ==
    /\ pc = "Fanout"
    /\ i \in Tasks
    /\ tpc[i] = "fetching"
    /\ r \in FetchWithClient(links[i])
    /\ tpc' = [tpc EXCEPT ![i] = "finished"]
    /\ tres' = [tres EXCEPT ![i] = IF r.ok THEN "ok" ELSE "failed"]
    /\ results' = IF r.ok THEN Append(results, TaskOkArm(r.page)) ELSE results
    /\ pc' = IF r.ok THEN pc ELSE "Error"
    /\ ret' = IF r.ok THEN ret ELSE RetErr
    /\ failed' = IF r.ok THEN failed ELSE failed \cup {links[i]}
    /\ UNCHANGED <<visited, lockHolders, config, textVars, pages, links, tclaim,
                   callVars, fetchVars, fetchCount>>

\* match self.fetch_page_with_client(&link, &client).await { Ok(page) =>
\* Ok(vec![page]), Err(e) => Ok(vec![]) }; buffer_unordered yields the result.
TaskFetched(i, r) ==
    /\ pc = "Fanout"
    /\ i \in Tasks
    /\ tpc[i] = "fetching"
    /\ r \in FetchWithClient(links[i])
    /\ tpc' = [tpc EXCEPT ![i] = "finished"]
    /\ tres' = [tres EXCEPT ![i] = IF r.ok THEN "ok" ELSE "failed"]
    /\ results' = Append(results, IF r.ok THEN TaskOkArm(r.page) ELSE TaskEmpty)
    /\ failed' = IF r.ok THEN failed ELSE failed \cup {links[i]}
    /\ UNCHANGED <<visited, lockHolders, config, textVars, pc, pages, links, tclaim,
                   ret, callVars, fetchVars, fetchCount>>

\* .collect().await completes when the stream is exhausted and no future is
\* in progress.
Collected ==
    /\ pc = "Fanout"
    /\ \A i \in Tasks : tpc[i] = "finished"
    /\ pc' = "Merging"
    /\ UNCHANGED <<visited, lockHolders, config, textVars, pages, links, taskVars, ret,
                   callVars, fetchVars, fetchCount, failed>>

\* The merge loop and Ok(pages).
Merge ==
    /\ pc = "Merging"
    /\ pages' = MergedPages(pages, results)
    /\ ret' = RetOk(pages')
    /\ pc' = "Done"
    /\ UNCHANGED <<visited, lockHolders, config, textVars, links, taskVars, callVars,
                   fetchVars, fetchCount, failed>>

----------------------------------------------------------------------------

----------------------------------------------------------------------------
(* clean_text applied to a text, and to its own result *)

\* Self::clean_text(&el.text().collect::<String>())
CleanText ==
    /\ cpc = "input"
    /\ cleaned' = clean_text(text)
    /\ cpc' = "cleaned"
    /\ UNCHANGED <<visited, lockHolders, config, pc, pages, links, taskVars, ret,
                   callVars, fetchVars, fetchCount, failed, text>>

\* clean_text applied to what it returned.
CleanAgain ==
    /\ cpc = "cleaned"
    /\ text' = cleaned
    /\ cleaned' = clean_text(cleaned)
    /\ cpc' = "again"
    /\ UNCHANGED <<visited, lockHolders, config, pc, pages, links, taskVars, ret,
                   callVars, fetchVars, fetchCount, failed>>

CleanInit ==
    /\ visited = {}
    /\ lockHolders = {}
    /\ concurrency = 1
    /\ max_retries = 0
    /\ pc = "Idle"
    /\ seed = ""
    /\ recursive = FALSE
    /\ pages = <<>>
    /\ links = <<>>
    /\ tpc = <<>>
    /\ tclaim = <<>>
    /\ tres = <<>>
    /\ results = <<>>
    /\ ret = NoRet
    /\ fpc = "idle"
    /\ elapsed = 0
    /\ interval = 0
    /\ attempts = 0
    /\ lastAttempt = "none"
    /\ fres = "none"
    /\ fetchCount = [u \in Urls |-> 0]
    /\ failed = {}
    /\ visited0 = {}
    /\ calls = 0
    /\ text \in Texts
    /\ cleaned = <<>>
    /\ cpc = "input"

CleanNext ==
    \/ CleanText
    \/ CleanAgain

CleanSpec == CleanInit /\ [][CleanNext]_vars

----------------------------------------------------------------------------

\* The steps of an invocation that is under way.
Step ==
    \/ SeedLock
    \/ SeedCheck
    \/ SeedInsert
    \/ \E o \in SendOutcomes : \E d \in Durations(o) : Send(o, d)
    \/ \E iv \in 1..Timeout : BackoffRetry(iv)
    \/ BackoffGiveUp
    \/ \E ok \in BOOLEAN : ReadBody(ok)
    \/ SeedFetchOk
    \/ SeedFetchErr
    \/ \E i \in Tasks : TaskStart(i)
    \/ \E i \in Tasks : TaskLock(i)
    \/ \E i \in Tasks : TaskCheck(i)
    \/ \E i \in Tasks : TaskInsert(i)
    \/ \E i \in Tasks : \E r \in FetchWithClient(links[i]) : TaskFetched(i, r)
    \/ Collected
    \/ Merge

Next ==
    \/ \E u \in SeedUrls, r \in BOOLEAN : Call(u, r)
    \/ Step

Spec == Init /\ [][Next]_vars

\* The runtime keeps polling crawl_url's future, and every request, sleep
\* and body read ends: a step that stays possible is eventually taken.
FairSpec == Spec /\ WF_vars(Step)

----------------------------------------------------------------------------
(* Properties *)

Range(f) == {f[i] : i \in DOMAIN f}

\* The fan-out tasks of the current invocation whose link is u.
Racers(u) == {i \in Tasks : links[i] = u}

\* The seed was claimed and fetched by the invocation that has returned Ok.
ReturnedWithSeed == pc = "Done" /\ seed \notin visited0

\* C1: of the tasks that race to claim one URL, at most one wins at any
\* moment; once all of them have decided on a URL that was unclaimed when the
\* fan-out began, exactly one has won; a winner goes on to fetch, and every
\* loser saw the URL as visited and fetches nothing.
ExactlyOneClaimer ==
    \A u \in Urls :
        LET W == {i \in Racers(u) : tclaim[i] = "won"}
            L == {i \in Racers(u) : tclaim[i] = "lost"}
        IN  /\ Cardinality(W) <= 1
            /\ (Racers(u) # {} /\ W \cup L = Racers(u) /\ u \notin visited0 \cup {seed})
                  => Cardinality(W) = 1
            /\ \A i \in W : tpc[i] \in {"fetching", "finished"}
            /\ \A i \in L : u \in visited /\ tres[i] = "none"

\* Two tasks raced for one link and the one started later won: the earlier
\* one was still waiting for the lock and then found the link visited.
RaceResolved ==
    \E i, j \in Tasks :
        /\ i < j
        /\ links[i] = links[j]
        /\ tclaim[j] = "won"
        /\ tclaim[i] = "lost"

\* C2: a claim ends false exactly when the URL is in the registry, and then
\* leaves the registry as it was; a claim ends true only on a URL that is
\* not in the registry, and then adds exactly that URL.
ClaimIsTestAndSet ==
    [][ /\ (pc = "SeedLocked" /\ seed \in visited) => (pc' = "Done" /\ visited' = visited)
        /\ (pc = "SeedLocked" /\ seed \notin visited) => (pc' = "SeedInsert" /\ visited' = visited)
        /\ (pc = "SeedInsert" /\ pc' # pc)
              => (seed \notin visited /\ pc' = "FetchingSeed" /\ visited' = visited \cup {seed})
        /\ \A i \in Tasks :
              /\ (tpc[i] = "locked" /\ tpc'[i] # "locked")
                    => /\ visited' = visited
                       /\ IF links[i] \in visited
                          THEN tpc'[i] = "finished" /\ tclaim'[i] = "lost"
                          ELSE tpc'[i] = "insert"
              /\ (tpc[i] = "insert" /\ tpc'[i] # "insert")
                    => /\ links[i] \notin visited
                       /\ tclaim'[i] = "won"
                       /\ visited' = visited \cup {links[i]}
      ]_vars

\* The seed was claimed (true), and a task whose link is the seed then
\* claimed it again (false).
ClaimedThenRefused ==
    \E i \in Tasks : links[i] = seed /\ tclaim[i] = "lost" /\ fetchCount[seed] = 1

\* C3: since Crawler::new, no URL has been fetched more than once.
FetchedAtMostOnce == \A u \in Urls : fetchCount[u] <= 1

\* A second crawl has finished whose seed page links twice to a page an
\* earlier crawl fetched, and to the seed itself.
RepeatedLinksCrawled ==
    /\ calls = 2
    /\ pc = "Done"
    /\ recursive
    /\ seed \notin visited0
    /\ \E i, j \in Tasks : i # j /\ links[i] = links[j] /\ links[i] \in visited0
    /\ \E i \in Tasks : links[i] = seed
    /\ \A i \in Tasks : fetchCount[links[i]] = 1

\* C4: a non-recursive crawl_url that returns Ok returns at most one page,
\* and the seed's page is in it exactly when the seed was unclaimed at the call.
NonRecursiveResult ==
    (pc = "Done" /\ ~recursive) =>
        /\ ret.kind = "Ok"
        /\ Len(ret.pages) <= 1
        /\ (\E k \in 1..Len(ret.pages) : ret.pages[k].url = seed) <=> seed \notin visited0

\* A non-recursive crawl of a seed claimed before has returned the empty list.
NonRecursiveSkipped ==
    /\ pc = "Done"
    /\ ~recursive
    /\ seed \in visited0
    /\ ret = RetOk(<<>>)

\* C5: a recursive crawl_url that fetched its seed returns the seed's page at
\* index 1, and at most one page more per distinct link of the seed's page.
SeedFirstAndBounded ==
    (ReturnedWithSeed /\ recursive) =>
        /\ ret.kind = "Ok"
        /\ Len(ret.pages) >= 1
        /\ ret.pages[1] = Extract(seed)
        /\ Len(ret.pages) <= 1 + Cardinality(Range(ret.pages[1].related_links))

\* A recursive crawl has returned descendants in another order than the
\* seed page links them.
OutOfOrderMerge ==
    /\ ReturnedWithSeed
    /\ recursive
    /\ Len(ret.pages) >= 3
    /\ \E i, j \in Tasks : i < j /\ ret.pages[2].url = links[j] /\ ret.pages[3].url = links[i]

\* C6: when fetch_page fails on the seed, crawl_url ends in Error, returns
\* Err and no page, and has created no fan-out task.
SeedFailureIsFatal ==
    /\ fres = "err" =>
          /\ pc \in {"FetchingSeed", "Error"}
          /\ Tasks = {}
          /\ links = <<>>
          /\ results = <<>>
          /\ pages = <<>>
    /\ (fres = "err" /\ pc # "FetchingSeed") => (ret = RetErr /\ ret.pages = <<>>)
    /\ pc = "Error" => fres = "err"

\* A recursive crawl of a seed whose page has links has ended in Error.
RecursiveSeedFailed ==
    /\ pc = "Error"
    /\ recursive
    /\ RelatedLinks(seed) # <<>>
    /\ fetchCount[seed] = 1

\* C7: a failed descendant never makes the invocation an error; the crawl
\* returns Ok with the seed's page first, with the page of every task whose
\* fetch succeeded, and with no page for a task whose fetch failed.
DescendantFailureTolerated ==
    /\ (\E i \in Tasks : tres[i] = "failed") => pc \in {"Fanout", "Merging", "Done"}
    /\ (ReturnedWithSeed /\ recursive) =>
          /\ ret.kind = "Ok"
          /\ ret.pages[1].url = seed
          /\ \A i \in Tasks :
                /\ tres[i] = "ok" =>
                      \E k \in 2..Len(ret.pages) : ret.pages[k] = Extract(links[i])
                /\ tres[i] = "failed" =>
                      ~ \E k \in 2..Len(ret.pages) : ret.pages[k].url = links[i]

\* A recursive crawl has returned after one descendant failed and another,
\* started later, succeeded.
FailedAndSucceeded ==
    /\ ReturnedWithSeed
    /\ recursive
    /\ \E i, j \in Tasks : i < j /\ tres[i] = "failed" /\ tres[j] = "ok"

\* C8: the tasks started and not yet finished never number more than
\* config.concurrency.
BoundedInFlight == Cardinality(InFlight) <= concurrency

\* Every slot is taken, a task has finished and another link still waits.
SlotsFullLinkWaiting ==
    /\ pc = "Fanout"
    /\ Cardinality(InFlight) = concurrency
    /\ \E i \in Tasks : tpc[i] = "queued"
    /\ \E i \in Tasks : tpc[i] = "finished"

\* C9: every link in the related_links of a fetched page, and every link the
\* fan-out works on, has the crawl domain as its host.
OnlyCrawlDomainLinks ==
    /\ \A k \in 1..Len(pages) : \A l \in Range(pages[k].related_links) : Host(l) = CrawlDomain
    /\ \A i \in Tasks : Host(links[i]) = CrawlDomain
    /\ \A u \in Urls : fetchCount[u] > 0 => Host(u) = CrawlDomain

\* C10: fetch_page returns Ok only after a request that ended in success: an
\* attempt that was refused, timed out or got a non-success status is never
\* taken as the result.
FailedAttemptNeverResult ==
    (fpc = "returned" /\ fres = "ok") => lastAttempt = "ok200"

OneLevelOnly ==
    /\ \A u \in visited \ visited0 : u = seed \/ u \in Range(RelatedLinks(seed))
    /\ \A u \in Urls :
          (fetchCount[u] > 0 /\ u \notin visited0) =>
              (u = seed \/ u \in Range(RelatedLinks(seed)))
    /\ links = <<>> \/ links = RelatedLinks(seed)

\* A recursive crawl has returned with the page of a descendant that links
\* to a page nobody has claimed.
GrandchildLeftAlone ==
    /\ ReturnedWithSeed
    /\ recursive
    /\ \E i \in Tasks :
          /\ tres[i] = "ok"
          /\ \E g \in Range(RelatedLinks(links[i])) : g \notin visited /\ fetchCount[g] = 0

\* C14: under fair scheduling every invocation that has started reaches
\* Done or Error, and when it has, every task of its fan-out has finished:
\* none was cancelled, and none is left waiting for a slot or for the lock.
EveryCallTerminates ==
    /\ (pc \notin {"Idle", "Done", "Error"}) ~> (pc \in {"Done", "Error"})
    /\ [](pc \in {"Done", "Error"} => \A i \in Tasks : tpc[i] = "finished")

\* A recursive crawl with more links than slots has returned, every task
\* finished.
MoreLinksThanSlotsDone ==
    /\ pc = "Done"
    /\ recursive
    /\ Len(links) > concurrency
    /\ \A i \in Tasks : tpc[i] = "finished"

\* C15 as claimed: the registry is empty whenever a crawl_url call starts.
RegistryEmptyAtCallStart == pc = "ClaimingSeed" => visited = {}

\* C15 as amended: the registry lives as long as the Crawler.  It is empty
\* when the first crawl_url call starts, and when any call starts it holds
\* every URL claimed since Crawler::new.
RegistryOutlivesCall ==
    /\ calls = 1 => visited0 = {}
    /\ pc = "ClaimingSeed" =>
          /\ visited = visited0
          /\ visited = {u \in Urls : fetchCount[u] > 0}
    /\ visited0 \subseteq visited

\* A second call starts with the URLs of the first still claimed.
SecondCallSeesClaims ==
    /\ calls = 2
    /\ pc = "ClaimingSeed"
    /\ visited # {}

\* C16: an invocation whose seed was already in the registry goes from the
\* claim straight to Done: it returns Ok with no page, never calls
\* fetch_page, builds no fan-out task even when recursive, and leaves the
\* registry and the fetch counts as they were.
SkippedSeedIsNoOp ==
    (seed \in visited0 /\ pc # "Idle") =>
        /\ pc \in {"ClaimingSeed", "SeedLocked", "Done"}
        /\ visited = visited0
        /\ fres = "none"
        /\ fpc = "idle"
        /\ Tasks = {}
        /\ links = <<>>
        /\ fetchCount[seed] = 1
        /\ {u \in Urls : fetchCount[u] > 0} = visited0
        /\ pc = "Done" => ret = RetOk(<<>>)

\* A recursive crawl of an already claimed seed whose page has links has
\* returned.
RecursiveSkipped ==
    /\ pc = "Done"
    /\ recursive
    /\ seed \in visited0
    /\ RelatedLinks(seed) # <<>>
    /\ ret = RetOk(<<>>)

\* The tasks that won their claim and whose fetch succeeded.
Successes == {i \in Tasks : tclaim[i] = "won" /\ tres[i] = "ok"}

\* C17: a recursive crawl that fetched its seed returns one page for the
\* seed and exactly one for each task that won its claim and fetched
\* successfully, that page carrying the task's link as its url; so with a
\* success among the descendants the result has more than one page.
CountMatchesSuccesses ==
    (ReturnedWithSeed /\ recursive) =>
        /\ Len(ret.pages) = 1 + Cardinality(Successes)
        /\ \A i \in Successes :
              Cardinality({k \in 2..Len(ret.pages) : ret.pages[k].url = links[i]}) = 1
        /\ \A k \in 2..Len(ret.pages) : \E i \in Successes : ret.pages[k].url = links[i]
        /\ \A i \in Tasks : tres[i] = "ok" => tclaim[i] = "won"
        /\ Successes # {} => Len(ret.pages) > 1

\* A recursive crawl on a fresh registry has returned: a descendant in the
\* crawl domain succeeded, one failed and one lost its claim.
MixedOutcomesCounted ==
    /\ ReturnedWithSeed
    /\ recursive
    /\ visited0 = {}
    /\ \E i \in Successes : Host(links[i]) = CrawlDomain /\ links[i] # seed
    /\ \E i \in Tasks : tres[i] = "failed"
    /\ \E i \in Tasks : tclaim[i] = "lost"

\* C18: whoever holds the registry lock is between its contains-check and
\* its insert, never in a fetch; so while tasks fetch, the lock is free for
\* a waiting task unless another task is inside that short section.
LockNeverSpansFetch ==
    /\ 0 \in lockHolders => pc \in {"SeedLocked", "SeedInsert"}
    /\ \A i \in lockHolders \ {0} : i \in Tasks /\ tpc[i] \in {"locked", "insert"}
    /\ pc = "FetchingSeed" => lockHolders = {}
    /\ \A i \in Tasks : tpc[i] = "fetching" => i \notin lockHolders
    /\ \A j \in Tasks :
          (tpc[j] = "lockwait" /\ \A i \in Tasks : tpc[i] \in {"lockwait", "fetching", "queued", "finished"})
              => ENABLED TaskLock(j)

\* As many fetches are in flight as there are slots, more than one, and a
\* further link waits.
FetchesInParallel ==
    /\ concurrency >= 2
    /\ Cardinality({i \in Tasks : tpc[i] = "fetching"}) = concurrency
    /\ \E i \in Tasks : tpc[i] = "queued"

\* The sub-sequences of two neighbouring characters of t.
Pairs(t) == {<<t[i], t[i + 1]>> : i \in 1..(Len(t) - 1)}

\* The words of each line of t.
WordsByLine(t) == [i \in 1..Len(Lines(t)) |-> SplitWhitespace(Lines(t)[i])]

\* C19: what clean_text returns has no whitespace but single spaces
\* between words and single newlines between lines, none of them at
\* either end, so no empty line; its lines hold, in order, the words of the
\* input's lines that have a word; clean_text returns it unchanged when
\* applied to it; and the spec's example gives "Hello world\nFoo".
CleanTextNormalizes ==
    /\ cpc \in {"cleaned", "again"} =>
          /\ \A i \in 1..Len(cleaned) : cleaned[i] \in WhiteSpace => cleaned[i] \in {" ", "\n"}
          /\ cleaned # <<>> =>
                (cleaned[1] \notin WhiteSpace /\ cleaned[Len(cleaned)] \notin WhiteSpace)
          /\ \A p \in Pairs(cleaned) : ~ (p[1] \in WhiteSpace /\ p[2] \in WhiteSpace)
          /\ \A i \in 1..Len(Lines(cleaned)) : Lines(cleaned)[i] # <<>>
          /\ WordsByLine(cleaned) = LET HasWord(ws) == ws # <<>>
                                    IN  SelectSeq(WordsByLine(text), HasWord)
    /\ (cpc = "cleaned" /\ text = ExampleText) => cleaned = Chars("Hello world\nFoo")
    /\ cpc = "again" => cleaned = text

\* clean_text has been applied to the spec's example.
ExampleCleaned ==
    /\ cpc = "cleaned"
    /\ text = ExampleText
    /\ cleaned = Chars("Hello world\nFoo")

\* C20: the registry only grows; a URL whose fetch failed, as a seed or as
\* a descendant, stays claimed and is fetched that once and never again; and
\* a later crawl_url whose seed's earlier fetch failed returns Ok with an
\* empty list.
FailedClaimNeverReleased ==
    /\ [][visited \subseteq visited']_vars
    /\ [](/\ failed \subseteq visited
          /\ \A u \in failed : fetchCount[u] = 1
          /\ (pc \in {"Done", "Error"} /\ seed \in failed /\ seed \in visited0)
                => (pc = "Done" /\ ret = RetOk(<<>>)))

\* A second crawl_url, on a seed whose fetch failed during the first, has
\* returned Ok with an empty list and the seed was fetched only that once.
FailedSeedSkippedLater ==
    /\ calls = 2
    /\ pc = "Done"
    /\ seed \in failed
    /\ seed \in visited0
    /\ ret = RetOk(<<>>)
    /\ fetchCount[seed] = 1

====
